---- MODULE Spec2Model ----
(***************************************************************************)
(* Model of the conversation core of Morgan AI 0.4:                        *)
(*   ThreadManager        (app/services/thread_manager.py)                 *)
(*   OpenAIService        (app/services/openai_service.py)                 *)
(*   send_message route   (app/api/routes/chat.py)                         *)
(*   EmbeddingCache       (app/utils/embeddings.py)                        *)
(* Every coroutine runs on one asyncio event loop: code between two awaits *)
(* that really suspend is one atomic step.  ThreadManager's coroutines     *)
(* never suspend, so each of them is one step.  generate_chat_response     *)
(* suspends at the embedding call (and tenacity's sleep between embedding  *)
(* attempts) and at the chat-completion call.                              *)
(*                                                                         *)
(* Specifications:                                                         *)
(*   Spec       respond calls, interleaved, through the route or directly  *)
(*   StoreSpec  the ThreadManager called directly by several users         *)
(*   FunSpec    retrieval, prompt building and get_messages as functions   *)
(*   CacheSpec  the EmbeddingCache                                         *)
(***************************************************************************)
EXTENDS Integers, Sequences, FiniteSets, TLC

VARIABLES
    threads,        \* ThreadManager.threads: thread_id -> ChatThread
    messages,       \* ThreadManager.messages: thread_id -> list of ChatMessage
    user_threads,   \* ThreadManager.user_threads: user_id -> list of thread_id
    now,            \* the last value datetime.utcnow() returned
    pc,             \* per respond call: where the coroutine is suspended
    req,            \* per respond call: the arguments of the call
    attempt,        \* per respond call: tenacity's attempt numbers (body, embedding)
    called,         \* per respond call: the retrieval backends it has called
    genCalls,       \* per respond call: calls made to the generation backend
    context,        \* per respond call: the RAG context string (list of sources)
    outcome,        \* per respond call: how the call ended and what it returned
    appended,       \* per respond call: messages it stored (history variable)
    cancelled,      \* respond calls that were cancelled (history variable)
    ragError,       \* per respond call: what failed in retrieval (history variable)
    everDeleted,    \* thread ids ever removed by delete_thread (history variable)
    last,           \* the last ThreadManager call: arguments, outcome, store before it
    arg,            \* the arguments of a function under study
    res,            \* what the function returned for arg
    cache,          \* EmbeddingCache.cache: ordered dict key -> embedding
    access_count,   \* EmbeddingCache.access_count: ordered dict key -> int
    created_at,     \* EmbeddingCache.created_at: ordered dict key -> datetime
    max_size,       \* EmbeddingCache.max_size
    cacheLog        \* what the EmbeddingCache calls did so far (history variable)

vars == << threads, messages, user_threads, now, pc, req, attempt, called,
           genCalls, context, outcome, appended,
           cancelled, ragError, everDeleted,
           last, arg, res, cache, access_count, created_at, max_size, cacheLog >>

-----------------------------------------------------------------------------
(* Bounds of the model *)

NumCalls == 2
MaxClock == 2

Calls == 1..NumCalls
ThreadIds == {"t1"}
Users == {"u1"}

\* every caller in the repository passes use_rag=True
UseRagValues == { TRUE }

\* request bodies: the empty string and a non-empty one
EmptyContent == << >>
Contents == { EmptyContent, <<"h", "i">> }
Reply == <<"o", "k">>

\* what the generation backend answers on the 1st, 2nd, 3rd call of a request
Scripts == { <<"ok", "ok", "ok">>,
             <<"RateLimitError", "RateLimitError", "ok">>,
             <<"BadRequestError", "BadRequestError", "BadRequestError">> }

\* the matches the vector index answers with, scores in tenths
MatchLists == { << >>,
                << [score |-> 9, source |-> "a"], [score |-> 5, source |-> "b"] >> }

ClockSteps == {0, 1}

\* the functions studied on their own: the stored messages a prompt is built
\* from, the messages and the time stamps get_messages filters
MaxHistory == 11
MaxWindow == 3
MaxStamp == 2

\* the embedding cache: capacities, hits per key, set calls, clock
MaxCapacity == 2
MaxAccess == 1
MaxSets == 3
CacheMaxClock == 1
CacheKeys == { "k1", "k2", "k3" }
Embeddings == { "v1", "v2" }

\* the thread store called directly: bounds on what it holds, and the callers' inputs
MaxStored == 2
MaxListed == 2
StoreMaxClock == 1
StoreThreadIds == {"t1", "t2"}
StoreUsers == {"u1", "u2"}
FeedbackIds == { "m1", "m2" }
Ratings == { 5 }
FeedbackUsers == { "u1" }
Queries == { <<"h", "i">> }

-----------------------------------------------------------------------------
(* Program constants *)

MaxAttempts == 3        \* stop_after_attempt(3)
HistoryLimit == 10      \* get_messages(session_id, limit=10)
RouteReadLimit == 2     \* get_messages(thread.thread_id, limit=2)
ListLimit == 20         \* get_user_threads(user_id, limit=20, offset=0)
TitleLen == 50          \* message.content[:50]
ScoreThreshold == 5     \* score > 0.5, in tenths
NoLimit == 0            \* limit=None / 0: "if limit:" is false
Unset == -1             \* None, for an optional number or datetime
TopK == 5               \* _get_rag_context(query, top_k=5)
DefaultMaxSize == 1000  \* EmbeddingCache(max_size=1000)

\* texts are sequences of tokens
Apology == << "I apologize, but I encountered an error. Please try again." >>
NoneValue == "None"

-----------------------------------------------------------------------------
(* Python helpers *)

Min(a, b) == IF a < b THEN a ELSE b
Max(a, b) == IF a > b THEN a ELSE b

\* seq[-n:] for n > 0
LastN(seq, n) == SubSeq(seq, Max(1, Len(seq) - n + 1), Len(seq))

\* dict without a key
DictDel(d, k) == [x \in DOMAIN d \ {k} |-> d[x]]

\* dict with d[k] = v
DictPut(d, k, v) == [x \in DOMAIN d \cup {k} |-> IF x = k THEN v ELSE d[x]]

\* defaultdict(list).__getitem__ / dict.get(k, [])
ListAt(d, k) == IF k \in DOMAIN d THEN d[k] ELSE << >>

\* "text in body" for str: text occurs in body as a run of consecutive tokens
Contains(body, text) ==
    \E i \in 0..(Len(body) - Len(text)) : SubSeq(body, i + 1, i + Len(text)) = text

\* str.lower(), on the letters the model uses
LowerChar(ch) == IF ch = "H" THEN "h" ELSE IF ch = "I" THEN "i" ELSE ch
Lower(text) == [ i \in 1..Len(text) |-> LowerChar(text[i]) ]

RECURSIVE SelectSeqNot(_, _)
SelectSeqNot(seq, x) ==
    IF seq = << >> THEN << >>
    ELSE (IF Head(seq) = x THEN << >> ELSE << Head(seq) >>) \o SelectSeqNot(Tail(seq), x)

-----------------------------------------------------------------------------
(* ThreadManager *)

\* ChatThread(thread_id, user_id, created_at, updated_at, metadata)
NewThread(tid, user, created, updated) ==
    [ thread_id |-> tid, user_id |-> user, title |-> NoneValue, created_at |-> created,
      updated_at |-> updated, message_count |-> 0 ]

\* create_thread: no check for an existing id; the id is appended to the user's list
CreateThreadThreads(ths, tid, user, created, updated) ==
    DictPut(ths, tid, NewThread(tid, user, created, updated))

CreateThreadUserThreads(uts, tid, user) ==
    DictPut(uts, user, Append(ListAt(uts, user), tid))

\* ChatMessage(role, content, timestamp, user_id); message_id defaults to None
\* and metadata to {}: feedback is metadata['feedback'], None while absent.
\* The field call is a history field: the respond call that built the message.
NewMessage(role, content, ts, user, c) ==
    [ role |-> role, content |-> content, timestamp |-> ts, user_id |-> user,
      message_id |-> NoneValue, feedback |-> NoneValue, call |-> c ]

\* title = content[:50], plus "..." when the content is longer
Title(content) ==
    SubSeq(content, 1, Min(TitleLen, Len(content)))
        \o (IF Len(content) > TitleLen THEN <<".", ".", ".">> ELSE << >>)

\* variant: self.messages[thread_id] is read before the check of line 88, and the
\* defaultdict makes an entry for the id
AddMessageRejectedTouches(msgs, tid) == DictPut(msgs, tid, ListAt(msgs, tid))

\* self.messages after an add_message that raised: the check comes first
AddMessageRejected(msgs, tid) == msgs

\* add_message raises ValueError unless the thread exists
AddMessageRaises(ths, tid) == tid \notin DOMAIN ths

\* add_message: self.messages[thread_id].append(message)
AddMessageMessages(msgs, tid, m) == DictPut(msgs, tid, Append(ListAt(msgs, tid), m))

\* add_message: updated_at, message_count and, for a first user message, title;
\* msgs is self.messages after the append
AddMessageThreads(ths, msgs, tid, m, updated) ==
    [ ths EXCEPT ![tid] =
        [ @ EXCEPT !.updated_at = updated,
                   !.message_count = Len(msgs[tid]),
                   !.title = IF m.role = "user" /\ Len(msgs[tid]) = 1
                             THEN Title(m.content) ELSE @ ] ]

\* get_messages(thread_id, limit) with no before/after filter
GetMessages(msgs, tid, limit) ==
    IF tid \notin DOMAIN msgs THEN << >>
    ELSE IF limit # NoLimit THEN LastN(msgs[tid], limit)
    ELSE msgs[tid]

\* get_messages(thread_id, limit, before, after): the filters apply when given
\* ("if before:", a datetime is always true), the limit when it is not 0 or None
GetMessagesWindow(msgs, tid, limit, before, after) ==
    IF tid \notin DOMAIN msgs THEN << >>
    ELSE LET m0 == msgs[tid]
             m1 == IF before # Unset
                   THEN SelectSeq(m0, LAMBDA m : m.timestamp < before) ELSE m0
             m2 == IF after # Unset
                   THEN SelectSeq(m1, LAMBDA m : m.timestamp > after) ELSE m1
         IN IF limit # Unset /\ limit # 0 THEN LastN(m2, limit) ELSE m2

\* get_thread: self.threads.get(thread_id)
GetThread(ths, tid) == IF tid \in DOMAIN ths THEN ths[tid] ELSE NoneValue

\* variant: delete_thread leaves the message list behind
DeleteThreadKeepsMessages(ths, msgs, tid) == msgs

\* delete_thread: a no-op unless the thread exists
DeleteThreadThreads(ths, tid) == IF tid \in DOMAIN ths THEN DictDel(ths, tid) ELSE ths

DeleteThreadMessages(ths, msgs, tid) ==
    IF tid \in DOMAIN ths /\ tid \in DOMAIN msgs THEN DictDel(msgs, tid) ELSE msgs

DeleteThreadUserThreads(ths, uts, tid) ==
    IF tid \in DOMAIN ths /\ ths[tid].user_id \in DOMAIN uts
    THEN [ uts EXCEPT ![ths[tid].user_id] = SelectSeqNot(@, tid) ]
    ELSE uts

\* add_feedback raises ValueError unless the thread has an entry in self.messages
AddFeedbackRaises(msgs, tid) == tid \notin DOMAIN msgs

\* the position of the first message of seq that carries message id mid, or 0
RECURSIVE FirstWithId(_, _, _)
FirstWithId(seq, mid, i) ==
    IF i > Len(seq) THEN 0
    ELSE IF seq[i].message_id = mid THEN i
    ELSE FirstWithId(seq, mid, i + 1)

\* add_feedback: metadata['feedback'] of the first message with that id
AddFeedbackMessages(msgs, tid, mid, fb) ==
    LET i == FirstWithId(msgs[tid], mid, 1)
    IN IF i = 0 THEN msgs ELSE [ msgs EXCEPT ![tid][i].feedback = fb ]

\* one entry of the list search_user_chats returns
SearchResult(ths, tid, m) ==
    [ thread_id |-> tid, message_id |-> m.message_id, content |-> m.content,
      role |-> m.role, timestamp |-> m.timestamp,
      thread_title |-> IF tid \in DOMAIN ths THEN ths[tid].title ELSE << >> ]

\* the inner loop of search_user_chats: the limit is tested after an append
RECURSIVE SearchMessages(_, _, _, _, _, _)
SearchMessages(ths, tid, seq, q, limit, results) ==
    IF seq = << >> THEN results
    ELSE IF Contains(Lower(Head(seq).content), Lower(q))
         THEN LET r == Append(results, SearchResult(ths, tid, Head(seq)))
              IN IF Len(r) >= limit THEN r
                 ELSE SearchMessages(ths, tid, Tail(seq), q, limit, r)
         ELSE SearchMessages(ths, tid, Tail(seq), q, limit, results)

\* the outer loop: the ids of the user's list, those without messages skipped;
\* the limit is tested again after each thread that has messages
RECURSIVE SearchThreads(_, _, _, _, _, _)
SearchThreads(ths, msgs, ids, q, limit, results) ==
    IF ids = << >> THEN results
    ELSE IF Head(ids) \notin DOMAIN msgs
         THEN SearchThreads(ths, msgs, Tail(ids), q, limit, results)
         ELSE LET r == SearchMessages(ths, Head(ids), msgs[Head(ids)], q, limit, results)
              IN IF Len(r) >= limit THEN r
                 ELSE SearchThreads(ths, msgs, Tail(ids), q, limit, r)

SearchUserChats(ths, msgs, uts, user, q, limit) ==
    SearchThreads(ths, msgs, ListAt(uts, user), q, limit, << >>)

\* get_user_threads: list.sort(key=updated_at, reverse=True) is stable
RECURSIVE InsertByUpdated(_, _)
InsertByUpdated(sorted, th) ==
    IF sorted = << >> THEN << th >>
    ELSE IF Head(sorted).updated_at >= th.updated_at
         THEN << Head(sorted) >> \o InsertByUpdated(Tail(sorted), th)
         ELSE << th >> \o sorted

RECURSIVE SortByUpdated(_)
SortByUpdated(seq) ==
    IF seq = << >> THEN << >>
    ELSE InsertByUpdated(SortByUpdated(SubSeq(seq, 1, Len(seq) - 1)), seq[Len(seq)])

RECURSIVE ExistingThreads(_, _)
ExistingThreads(ths, ids) ==
    IF ids = << >> THEN << >>
    ELSE (IF Head(ids) \in DOMAIN ths THEN << ths[Head(ids)] >> ELSE << >>)
             \o ExistingThreads(ths, Tail(ids))

\* threads[offset:offset + limit]
Slice(seq, offset, limit) ==
    SubSeq(seq, offset + 1, Min(Len(seq), offset + limit))

GetUserThreads(ths, uts, user, limit, offset) ==
    Slice(SortByUpdated(ExistingThreads(ths, ListAt(uts, user))), offset, limit)

\* cleanup_old_threads: cutoff_date = utcnow() - timedelta(days=days_old)
CutoffDate(clock, days_old) == clock - days_old

\* the threads whose updated_at precedes the cutoff
ThreadsToDelete(ths, cutoff_date) ==
    { tid \in DOMAIN ths : ths[tid].updated_at < cutoff_date }

\* delete_thread on each of them, one after the other
RECURSIVE CleanupOldThreads(_, _)
CleanupOldThreads(store, ids) ==
    IF ids = {} THEN store
    ELSE LET tid == CHOOSE x \in ids : TRUE
         IN CleanupOldThreads(
                [ threads |-> DeleteThreadThreads(store.threads, tid),
                  messages |-> DeleteThreadMessages(store.threads, store.messages, tid),
                  user_threads |-> DeleteThreadUserThreads(store.threads,
                                                           store.user_threads, tid) ],
                ids \ {tid})

-----------------------------------------------------------------------------
(* OpenAIService *)

\* variants of the except clauses: one that names ValueError only, one that
\* lets ValueError through, one that catches BaseException
ExceptValueErrorOnly(kind) == kind = "ValueError"
ExceptButValueError(kind) == kind \notin { "CancelledError", "ValueError" }
ExceptBaseException(kind) == TRUE

\* "except Exception" catches every exception but the BaseException-only ones;
\* asyncio.CancelledError is one of those (Python 3.8 and later)
ExceptExceptionCatches(kind) == kind # "CancelledError"

\* @retry(stop=stop_after_attempt(3), ...): tenacity retries a call that raised
\* an Exception, until the third attempt
TenacityRetries(kind, att) == kind # "CancelledError" /\ att < MaxAttempts

\* the provider's error, with the provider's text
BackendError(kind) == [ kind |-> kind, text |-> << "provider says: ", kind >> ]

\* raise ValueError(f"Thread {thread_id} not found")
ThreadNotFound(tid) == [ kind |-> "ValueError", text |-> << "Thread ", tid, " not found" >> ]

CancelledError == [ kind |-> "CancelledError", text |-> << >> ]

\* str(e)
StrOf(exc) == exc.text

\* the dict returned at the end of the try block
SuccessResult(ai, ctx) ==
    [ success |-> TRUE, response |-> ai, context_used |-> (ctx # << >>) ]

\* the dict returned by the outermost except
FailureResult(exc) ==
    [ success |-> FALSE, error |-> StrOf(exc), response |-> Apology ]

\* _get_rag_context: the parts of the matches with score > 0.5
RECURSIVE FormatContext(_)
FormatContext(matches) ==
    IF matches = << >> THEN << >>
    ELSE (IF Head(matches).score # 0 /\ Head(matches).score > ScoreThreshold
          THEN << Head(matches).source >> ELSE << >>)
             \o FormatContext(Tail(matches))

\* index.query raised: the index is unreachable
NoAnswer == [ ok |-> FALSE, matches |-> << >> ]

QueryAnswers ==
    { NoAnswer }
        \cup { [ ok |-> TRUE, matches |-> ml ] : ml \in MatchLists }

\* variant: the handler returns a notice instead of ""
GetRagContextNotice(embedOk, answer) ==
    IF embedOk /\ answer.ok THEN FormatContext(answer.matches)
    ELSE << "context unavailable" >>

\* _get_rag_context returns "" when the embedding or the query raised
GetRagContext(embedOk, answer) ==
    IF embedOk /\ answer.ok THEN FormatContext(answer.matches) ELSE << >>

\* the system prompt, one token
SystemPrompt == << "You are Morgan AI" >>

\* one entry of the messages array sent to the chat model
Turn(role, content) == [ role |-> role, content |-> content ]

HistoryTurns(history) == [ i \in 1..Len(history) |-> Turn(history[i].role, history[i].content) ]

\* f"Context from knowledge base:\n{context}"
ContextTurn(ctx) == Turn("system", << "Context from knowledge base:" >> \o ctx)

\* lines 75-100: system prompt, history, context when there is one, the message
BuildPrompt(history, ctx, message) ==
    << Turn("system", SystemPrompt) >>
        \o HistoryTurns(history)
        \o (IF ctx # << >> THEN << ContextTurn(ctx) >> ELSE << >>)
        \o << Turn("user", message) >>

\* the answer of the generation backend to the n-th call of a request
BackendAnswer(script, n) == script[Min(n, Len(script))]

-----------------------------------------------------------------------------
(* send_message (chat.py) *)

\* str(HTTPException(status_code=500, detail=d)): "" before Starlette gave the
\* class a __str__, "500: d" since
StrHTTPException(detail) == { << >>, << "500: " >> \o detail }

\* what the client gets for a result of generate_chat_response
RouteReplies(result) ==
    IF result.success
    THEN { [ status |-> 200, body |-> result.response ] }
    ELSE { [ status |-> 500, body |-> s ] : s \in StrHTTPException(result.error) }

\* what the client gets when generate_chat_response raised exc
RouteRepliesRaised(exc) == { [ status |-> 500, body |-> StrOf(exc) ] }

NoReply == [ status |-> 0, body |-> << >> ]


\* variants: only one of the two messages is stored
PersistUserOnly(msgs, tid, um, am) == AddMessageMessages(msgs, tid, um)
PersistReplyOnly(msgs, tid, um, am) == AddMessageMessages(msgs, tid, am)

\* lines 131-132: the two add_message calls, with no suspension between them
PersistMessages(msgs, tid, um, am) ==
    AddMessageMessages(AddMessageMessages(msgs, tid, um), tid, am)

PersistThreads(ths, msgs, tid, um, am, up1, up2) ==
    AddMessageThreads(
        AddMessageThreads(ths, AddMessageMessages(msgs, tid, um), tid, um, up1),
        PersistMessages(msgs, tid, um, am), tid, am, up2)

-----------------------------------------------------------------------------
(* State *)

IdleReq ==
    [ session |-> "t1", message |-> EmptyContent, user |-> NoneValue,
      use_rag |-> TRUE, script |-> <<"ok", "ok", "ok">>, route |-> FALSE ]

Pending == [ kind |-> "pending", result |-> NoneValue, reply |-> NoReply ]

storeVars == << threads, messages, user_threads >>
callVars == << pc, req, attempt, called, genCalls,
               context, outcome, appended, cancelled, ragError >>
funVars == << arg, res >>
cacheVars == << cache, access_count, created_at, max_size, cacheLog >>

\* no ThreadManager call was made yet
NoCall ==
    [ op |-> "none", thread |-> NoneValue, user |-> NoneValue, input |-> NoneValue,
      raised |-> FALSE, result |-> NoneValue,
      pre |-> [ threads |-> << >>, messages |-> << >>, user_threads |-> << >> ] ]

NoArg == [ fn |-> "none" ]
NoResult == [ done |-> FALSE, value |-> << >> ]
NoCacheLog ==
    [ sets |-> << >>, evictions |-> 0, evicted |-> [ key |-> NoneValue, counts |-> << >> ],
      cleared |-> FALSE ]

StoreInit ==
    /\ threads = << >>
    /\ messages = << >>
    /\ user_threads = << >>
    /\ now = 0
    /\ everDeleted = {}
    /\ last = NoCall

CallsInit ==
    /\ pc = [ c \in Calls |-> "idle" ]
    /\ req = [ c \in Calls |-> IdleReq ]
    /\ attempt = [ c \in Calls |-> [ body |-> 1, embed |-> 1 ] ]
    /\ called = [ c \in Calls |-> {} ]
    /\ genCalls = [ c \in Calls |-> 0 ]
    /\ context = [ c \in Calls |-> << >> ]
    /\ outcome = [ c \in Calls |-> Pending ]
    /\ appended = [ c \in Calls |-> 0 ]
    /\ cancelled = {}
    /\ ragError = [ c \in Calls |-> "none" ]

\* no function is under study
FunIdle ==
    /\ arg = NoArg
    /\ res = NoResult

\* EmbeddingCache(): nothing in the repository makes one
CacheIdle ==
    /\ cache = << >>
    /\ access_count = << >>
    /\ created_at = << >>
    /\ max_size = DefaultMaxSize
    /\ cacheLog = NoCacheLog

Init == StoreInit /\ CallsInit /\ FunIdle /\ CacheIdle

-----------------------------------------------------------------------------
(* ThreadManager operations called by the routes *)

DeleteThread(t) ==
    /\ threads' = DeleteThreadThreads(threads, t)
    /\ messages' = DeleteThreadMessages(threads, messages, t)
    /\ user_threads' = DeleteThreadUserThreads(threads, user_threads, t)
    /\ everDeleted' = IF t \in DOMAIN threads THEN everDeleted \cup {t} ELSE everDeleted
    /\ UNCHANGED << now, callVars, last, funVars, cacheVars >>

-----------------------------------------------------------------------------
(* generate_chat_response, from send_message or called directly *)

\* what the caller of generate_chat_response passes on
Replies(r, result) == IF r.route THEN RouteReplies(result) ELSE { NoReply }

RepliesRaised(r, exc) ==
    IF r.route /\ ExceptExceptionCatches(exc.kind) THEN RouteRepliesRaised(exc)
    ELSE { NoReply }

\* lines 69-86: the body up to its first suspension; the history it reads with
\* get_messages(session_id, limit=10) goes into the prompt only
BodyStart(c, r) ==
    /\ context' = [ context EXCEPT ![c] = << >> ]
    /\ pc' = [ pc EXCEPT ![c] = IF r.use_rag THEN "embed" ELSE "generate" ]

\* the coroutine ends: its locals and tenacity's state are gone
Return(c) ==
    /\ pc' = [ pc EXCEPT ![c] = "done" ]
    /\ attempt' = [ attempt EXCEPT ![c] = [ body |-> 1, embed |-> 1 ] ]
    /\ context' = [ context EXCEPT ![c] = << >> ]

\* an exception leaves the try block of lines 69-144: the except of line 145
\* turns it into a failure result; one it does not catch reaches tenacity, which
\* runs the body again or lets it out
Handle(c, exc) ==
    IF ExceptExceptionCatches(exc.kind)
    THEN /\ \E reply \in Replies(req[c], FailureResult(exc)) :
              outcome' = [ outcome EXCEPT ![c] =
                  [ kind |-> "returned", result |-> FailureResult(exc), reply |-> reply ] ]
         /\ Return(c)
    ELSE IF TenacityRetries(exc.kind, attempt[c].body)
    THEN /\ attempt' = [ attempt EXCEPT ![c] = [ body |-> @.body + 1, embed |-> 1 ] ]
         /\ BodyStart(c, req[c])
         /\ UNCHANGED outcome
    ELSE /\ \E reply \in RepliesRaised(req[c], exc) :
              outcome' = [ outcome EXCEPT ![c] =
                  [ kind |-> IF exc.kind = "CancelledError" THEN "cancelled" ELSE "raised",
                    result |-> NoneValue, reply |-> reply ] ]
         /\ Return(c)

\* send_message lines 68-86 (caller is the current user) or a direct call
\* (process_realtime_message passes no user_id), up to the first suspension
Start(c) ==
    /\ pc[c] = "idle"
    /\ \A b \in Calls : b < c => pc[b] # "idle"    \* the calls are interchangeable
    /\ \E t \in ThreadIds, m \in Contents, caller \in Users \cup { NoneValue },
          rag \in UseRagValues, scr \in Scripts :
         LET r == [ session |-> t, message |-> m, user |-> caller, use_rag |-> rag,
                    script |-> scr, route |-> (caller # NoneValue) ]
         IN /\ req' = [ req EXCEPT ![c] = r ]
            /\ IF r.route /\ t \notin DOMAIN threads
               THEN /\ \E d1, d2 \in ClockSteps :
                         /\ now + d1 + d2 <= MaxClock
                         /\ threads' = CreateThreadThreads(threads, t, caller,
                                                           now + d1, now + d1 + d2)
                         /\ now' = now + d1 + d2
                    /\ user_threads' = CreateThreadUserThreads(user_threads, t, caller)
               ELSE UNCHANGED << threads, user_threads, now >>
            /\ BodyStart(c, r)
    /\ UNCHANGED << messages, attempt, called, genCalls, outcome,
                    appended, cancelled, ragError, everDeleted,
                    last, funVars, cacheVars >>

\* lines 157-188: the embedding arrives; the index is queried without suspending
EmbedOk(c) ==
    /\ pc[c] = "embed"
    /\ called' = [ called EXCEPT ![c] = @ \cup { "embedding", "index" } ]
    /\ \E answer \in QueryAnswers :
         /\ context' = [ context EXCEPT ![c] = GetRagContext(TRUE, answer) ]
         /\ ragError' = [ ragError EXCEPT ![c] = IF answer.ok THEN @ ELSE "index" ]
    /\ pc' = [ pc EXCEPT ![c] = "generate" ]
    /\ UNCHANGED << storeVars, now, req, attempt, genCalls, outcome,
                    appended, cancelled, everDeleted,
                    last, funVars, cacheVars >>

\* lines 195-208: the embedding call raises; tenacity sleeps and calls again, and
\* after the third attempt its RetryError is caught at line 189
EmbedFail(c) ==
    /\ pc[c] = "embed"
    /\ called' = [ called EXCEPT ![c] = @ \cup { "embedding" } ]
    /\ IF TenacityRetries("APIError", attempt[c].embed)
       THEN /\ attempt' = [ attempt EXCEPT ![c].embed = @ + 1 ]
            /\ UNCHANGED << pc, context, ragError >>
       ELSE /\ context' = [ context EXCEPT ![c] = GetRagContext(FALSE, NoAnswer) ]
            /\ ragError' = [ ragError EXCEPT ![c] = "embedding" ]
            /\ pc' = [ pc EXCEPT ![c] = "generate" ]
            /\ UNCHANGED attempt
    /\ UNCHANGED << storeVars, now, req, genCalls, outcome,
                    appended, cancelled, everDeleted,
                    last, funVars, cacheVars >>

\* lines 104-144: the completion arrives and both messages are stored, or
\* add_message raises because the thread is gone
GenerateOk(c) ==
    /\ pc[c] = "generate"
    /\ BackendAnswer(req[c].script, genCalls[c] + 1) = "ok"
    /\ genCalls' = [ genCalls EXCEPT ![c] = @ + 1 ]
    /\ LET r == req[c]
           t == r.session
       IN IF AddMessageRaises(threads, t)
          THEN /\ Handle(c, ThreadNotFound(t))
               /\ UNCHANGED << threads, messages, now, appended >>
          ELSE /\ \E d1, d2, d3, d4 \in ClockSteps :
                    LET tu == now + d1
                        ta == tu + d2
                        up1 == ta + d3
                        up2 == up1 + d4
                        um == NewMessage("user", r.message, tu, r.user, c)
                        am == NewMessage("assistant", Reply, ta, r.user, c)
                    IN /\ up2 <= MaxClock
                       /\ messages' = PersistMessages(messages, t, um, am)
                       /\ threads' = PersistThreads(threads, messages, t, um, am, up1, up2)
                       /\ now' = up2
               /\ appended' = [ appended EXCEPT ![c] =
                                   Len(messages'[t]) - Len(ListAt(messages, t)) ]
               /\ \E reply \in Replies(r, SuccessResult(Reply, context[c])) :
                    outcome' = [ outcome EXCEPT ![c] =
                        [ kind |-> "returned",
                          result |-> SuccessResult(Reply, context[c]),
                          reply |-> reply ] ]
               /\ Return(c)
    /\ UNCHANGED << user_threads, req, called, cancelled, ragError,
                    everDeleted,
                    last, funVars, cacheVars >>

\* lines 113-115: the completion call raises
GenerateFail(c) ==
    /\ pc[c] = "generate"
    /\ BackendAnswer(req[c].script, genCalls[c] + 1) # "ok"
    /\ genCalls' = [ genCalls EXCEPT ![c] = @ + 1 ]
    /\ Handle(c, BackendError(BackendAnswer(req[c].script, genCalls[c] + 1)))
    /\ UNCHANGED << storeVars, now, req, called, appended,
                    cancelled, ragError, everDeleted,
                    last, funVars, cacheVars >>

\* the caller cancels the task while it is suspended: CancelledError is raised
\* at the await (line 157 inside _get_rag_context, or line 104)
Cancel(c) ==
    /\ pc[c] \in { "embed", "generate" }
    /\ cancelled' = cancelled \cup { c }
    /\ IF pc[c] = "embed" /\ ExceptExceptionCatches(CancelledError.kind)
       THEN /\ context' = [ context EXCEPT ![c] = GetRagContext(FALSE, NoAnswer) ]
            /\ pc' = [ pc EXCEPT ![c] = "generate" ]
            /\ UNCHANGED << attempt, outcome >>
       ELSE Handle(c, CancelledError)
    /\ UNCHANGED << storeVars, now, req, called, genCalls,
                    appended, ragError, everDeleted,
                    last, funVars, cacheVars >>

-----------------------------------------------------------------------------

Next ==
    \/ \E t \in ThreadIds : DeleteThread(t)
    \/ \E c \in Calls : Start(c)
    \/ \E c \in Calls : EmbedOk(c)
    \/ \E c \in Calls : EmbedFail(c)
    \/ \E c \in Calls : GenerateOk(c)
    \/ \E c \in Calls : GenerateFail(c)
    \/ \E c \in Calls : Cancel(c)

Spec == Init /\ [][Next]_vars

-----------------------------------------------------------------------------
(* ThreadManager called directly by several users *)

\* a content longer than the title
LongContent == [ i \in 1..(TitleLen + 1) |-> "x" ]

\* the messages the callers of add_message build: role, content, message id
MessageInputs ==
    { [ role |-> "user", content |-> <<"H", "i">>, message_id |-> NoneValue ],
      [ role |-> "user", content |-> LongContent, message_id |-> "m1" ],
      [ role |-> "assistant", content |-> <<"h", "i">>, message_id |-> "m1" ] }

\* the limits given to search_user_chats
SearchLimits == { 0, 1, ListLimit }

\* the pages asked of get_user_threads: the route's default page, and a
\* second page of one thread
ListInputs ==
    { [ limit |-> ListLimit, offset |-> 0 ], [ limit |-> 1, offset |-> 1 ] }

\* the ages given to cleanup_old_threads, in ticks of the clock
CleanupDays == { 0, 1 }

Store == [ threads |-> threads, messages |-> messages, user_threads |-> user_threads ]

Rank(x) == IF x \in { "t1", "u1" } THEN 1 ELSE 2

\* the messages the store holds
RECURSIVE SumLen(_, _)
SumLen(d, keys) ==
    IF keys = {} THEN 0
    ELSE LET k == CHOOSE x \in keys : TRUE IN Len(d[k]) + SumLen(d, keys \ {k})

Stored == SumLen(messages, DOMAIN messages)

\* the ids the per-user lists hold
Listed == SumLen(user_threads, DOMAIN user_threads)

\* ids and users are interchangeable: a new one is taken only when those before
\* it (in the order of their names, "t1" before "t2") are in use
FirstUse(x, all, used) ==
    x \in used \/ \A y \in all \ used : Rank(x) <= Rank(y)

Called(op, t, u, input, raised, result) ==
    last' = [ op |-> op, thread |-> t, user |-> u, input |-> input,
              raised |-> raised, result |-> result, pre |-> Store ]

\* create_thread(user_id, thread_id) with an explicit id (uuid4 gives an id
\* that no thread has)
CreateThread(u, t) ==
    /\ Listed < MaxListed
    /\ FirstUse(t, StoreThreadIds, DOMAIN threads \cup everDeleted)
    /\ FirstUse(u, StoreUsers, DOMAIN user_threads)
    /\ \E d \in ClockSteps :
         /\ now + d <= StoreMaxClock
         /\ threads' = CreateThreadThreads(threads, t, u, now + d, now + d)
         /\ now' = now + d
    /\ user_threads' = CreateThreadUserThreads(user_threads, t, u)
    /\ Called("create_thread", t, u, NoneValue, FALSE, threads'[t])
    /\ UNCHANGED << messages, everDeleted, callVars, funVars, cacheVars >>

\* add_message(thread_id, message) with a message the caller built just before
AddMessage(t) ==
    \E in \in MessageInputs, d \in ClockSteps :
        LET ts == now + d
            m == [ NewMessage(in.role, in.content, ts, NoneValue, 0)
                       EXCEPT !.message_id = in.message_id ]
        IN /\ ts <= StoreMaxClock
           /\ now' = ts
           /\ IF AddMessageRaises(threads, t)
              THEN /\ Called("add_message", t, NoneValue, m, TRUE, ThreadNotFound(t))
                   /\ messages' = AddMessageRejected(messages, t)
                   /\ UNCHANGED << threads, user_threads >>
              ELSE /\ Stored < MaxStored
                   /\ messages' = AddMessageMessages(messages, t, m)
                   /\ threads' = AddMessageThreads(threads, messages', t, m, ts)
                   /\ Called("add_message", t, NoneValue, m, FALSE, m)
                   /\ UNCHANGED user_threads
           /\ UNCHANGED << everDeleted, callVars, funVars, cacheVars >>

\* delete_thread(thread_id)
DeleteThreadCall(t) ==
    /\ threads' = DeleteThreadThreads(threads, t)
    /\ messages' = DeleteThreadMessages(threads, messages, t)
    /\ user_threads' = DeleteThreadUserThreads(threads, user_threads, t)
    /\ everDeleted' = IF t \in DOMAIN threads THEN everDeleted \cup {t} ELSE everDeleted
    /\ Called("delete_thread", t, NoneValue, NoneValue, FALSE, NoneValue)
    /\ UNCHANGED << now, callVars, funVars, cacheVars >>

\* add_feedback(thread_id, message_id, rating, feedback, user_id)
AddFeedback(t) ==
    \E mid \in FeedbackIds, rating \in Ratings, u \in FeedbackUsers :
        /\ IF AddFeedbackRaises(messages, t)
           THEN /\ Called("add_feedback", t, u, mid, TRUE, ThreadNotFound(t))
                /\ UNCHANGED messages
           ELSE /\ messages' = AddFeedbackMessages(messages, t, mid,
                                    [ rating |-> rating, user_id |-> u ])
                /\ Called("add_feedback", t, u, mid, FALSE, NoneValue)
        /\ UNCHANGED << threads, user_threads, now, everDeleted,
                        callVars, funVars, cacheVars >>

\* search_user_chats(user_id, query, limit)
Search(u) ==
    \E q \in Queries, limit \in SearchLimits :
        /\ Called("search_user_chats", NoneValue, u, [ query |-> q, limit |-> limit ], FALSE,
                  SearchUserChats(threads, messages, user_threads, u, q, limit))
        /\ UNCHANGED << storeVars, now, everDeleted, callVars, funVars, cacheVars >>

\* get_user_threads(user_id, limit, offset)
ListThreads(u) ==
    \E in \in ListInputs :
        /\ Called("get_user_threads", NoneValue, u, in, FALSE,
                  GetUserThreads(threads, user_threads, u, in.limit, in.offset))
        /\ UNCHANGED << storeVars, now, everDeleted, callVars, funVars, cacheVars >>

\* cleanup_old_threads(days_old)
Cleanup(days_old) ==
    \E d \in ClockSteps :
        LET cutoff_date == CutoffDate(now + d, days_old)
            ids == ThreadsToDelete(threads, cutoff_date)
            after == CleanupOldThreads(Store, ids)
        IN /\ now + d <= StoreMaxClock
           /\ now' = now + d
           /\ threads' = after.threads
           /\ messages' = after.messages
           /\ user_threads' = after.user_threads
           /\ everDeleted' = everDeleted \cup ids
           /\ Called("cleanup_old_threads", NoneValue, NoneValue,
                     [ days_old |-> days_old, cutoff_date |-> cutoff_date ],
                     FALSE, Cardinality(ids))
           /\ UNCHANGED << callVars, funVars, cacheVars >>

StoreNext ==
    \/ \E u \in StoreUsers, t \in StoreThreadIds : CreateThread(u, t)
    \/ \E t \in StoreThreadIds : AddMessage(t)
    \/ \E t \in StoreThreadIds : DeleteThreadCall(t)
    \/ \E t \in StoreThreadIds : AddFeedback(t)
    \/ \E u \in StoreUsers : Search(u)

StoreSpec == Init /\ [][StoreNext]_vars

\* the same store, listed page by page and cleaned up
ListNext ==
    \/ \E u \in StoreUsers, t \in StoreThreadIds : CreateThread(u, t)
    \/ \E t \in StoreThreadIds : AddMessage(t)
    \/ \E t \in StoreThreadIds : DeleteThreadCall(t)
    \/ \E u \in StoreUsers : ListThreads(u)
    \/ \E days_old \in CleanupDays : Cleanup(days_old)

ListSpec == Init /\ [][ListNext]_vars

-----------------------------------------------------------------------------
(* Functions studied on their own: _get_rag_context after the index answered, *)
(* the prompt of generate_chat_response, get_messages                         *)

\* the sequences of at most n distinct elements of S
RECURSIVE Arrangements(_, _)
Arrangements(S, n) ==
    IF n = 0 THEN { << >> }
    ELSE { << >> } \cup
         UNION { { << x >> \o q : q \in Arrangements(S \ { x }, n - 1) } : x \in S }

\* the documents of the index, each with its score for the query in tenths;
\* a score of 0 is falsy in "if score and score > 0.5"
IndexedDocs ==
    { [ score |-> 9, source |-> "a" ], [ score |-> 5, source |-> "b" ],
      [ score |-> 6, source |-> "c" ], [ score |-> 0, source |-> "d" ],
      [ score |-> 4, source |-> "e" ], [ score |-> 9, source |-> "f" ] }

\* index.query(top_k=5) answers with at most top_k matches, in an order of its own
IndexAnswers == Arrangements(IndexedDocs, TopK)

RagInputs == { [ fn |-> "_get_rag_context", matches |-> ml ] : ml \in IndexAnswers }

\* the stored messages of a session: n messages, user and assistant in turn, the
\* i-th with a content of i tokens
StoredExchange(n) ==
    [ i \in 1..n |->
        NewMessage(IF i % 2 = 1 THEN "user" ELSE "assistant",
                   [ k \in 1..i |-> "w" ], 0, NoneValue, 0) ]

PromptInputs ==
    { [ fn |-> "prompt", stored |-> StoredExchange(n), context |-> ctx, message |-> m ] :
        n \in 0..MaxHistory, ctx \in { << >>, << "a" >> }, m \in { <<"h", "i">> } }

\* the messages of a thread by their time stamps
Stamped(stamps) ==
    [ i \in 1..Len(stamps) |->
        NewMessage("user", [ k \in 1..i |-> "w" ], stamps[i], NoneValue, 0) ]

StampLists == UNION { [ 1..n -> 0..MaxStamp ] : n \in 0..MaxWindow }

\* limit, before and after are optional
WindowInputs ==
    { [ fn |-> "get_messages", present |-> pr, stored |-> Stamped(st),
        limit |-> l, before |-> b, after |-> a ] :
        pr \in BOOLEAN, st \in StampLists,
        l \in { Unset } \cup 0..(MaxWindow + 1),
        b \in { Unset } \cup 0..(MaxStamp + 1),
        a \in { Unset } \cup 0..MaxStamp }

FunInit ==
    /\ StoreInit /\ CallsInit /\ CacheIdle
    /\ arg \in RagInputs \cup PromptInputs \cup WindowInputs
    /\ res = NoResult

Returns(value) ==
    /\ ~res.done
    /\ res' = [ done |-> TRUE, value |-> value ]
    /\ UNCHANGED << arg, storeVars, now, everDeleted, last, callVars, cacheVars >>

\* _get_rag_context, lines 161-188, for an answer of the index
Retrieve ==
    /\ arg.fn = "_get_rag_context"
    /\ Returns(GetRagContext(TRUE, [ ok |-> TRUE, matches |-> arg.matches ]))

\* generate_chat_response, lines 71-100, for a session that holds arg.stored
Prompt ==
    /\ arg.fn = "prompt"
    /\ Returns(BuildPrompt(GetMessages([ s1 |-> arg.stored ], "s1", HistoryLimit),
                           arg.context, arg.message))

\* get_messages on a thread with these messages, or on one without an entry
ReadWindow ==
    /\ arg.fn = "get_messages"
    /\ Returns(GetMessagesWindow(IF arg.present THEN [ s1 |-> arg.stored ] ELSE << >>,
                                 "s1", arg.limit, arg.before, arg.after))

FunNext == Retrieve \/ Prompt \/ ReadWindow

FunSpec == FunInit /\ [][FunNext]_vars

-----------------------------------------------------------------------------
(* EmbeddingCache (app/utils/embeddings.py).  A dict keeps its keys in the    *)
(* order of their first insertion: it is a sequence of key-value entries.    *)

DictKeys(d) == { d[i].key : i \in 1..Len(d) }

\* d[k], for a key of d
DictGet(d, k) == (CHOOSE e \in { d[i] : i \in 1..Len(d) } : e.key = k).value

\* d[k] = v: a key of d keeps its place, a new key goes last
DictSet(d, k, v) ==
    IF k \in DictKeys(d)
    THEN [ i \in 1..Len(d) |-> IF d[i].key = k THEN [ key |-> k, value |-> v ] ELSE d[i] ]
    ELSE Append(d, [ key |-> k, value |-> v ])

\* del d[k]
DictRemove(d, k) == SelectSeq(d, LAMBDA e : e.key # k)

\* variant: max() instead of min()
MaxCountKey(ac) ==
    ac[CHOOSE i \in 1..Len(ac) :
          /\ \A j \in 1..Len(ac) : ac[i].value >= ac[j].value
          /\ \A j \in 1..(i - 1) : ac[j].value < ac[i].value].key

\* min(self.access_count.keys(), key=...): the first key, in the order of the
\* dict, among those with the smallest count
LruKey(ac) ==
    ac[CHOOSE i \in 1..Len(ac) :
          /\ \A j \in 1..Len(ac) : ac[i].value <= ac[j].value
          /\ \A j \in 1..(i - 1) : ac[j].value > ac[i].value].key

\* set evicts when len(self.cache) >= self.max_size, and _evict_lru returns at
\* once on an empty cache
Evicts(c, size) == Len(c) >= size /\ c # << >>

CacheInit ==
    /\ StoreInit /\ CallsInit /\ FunIdle
    /\ cache = << >>
    /\ access_count = << >>
    /\ created_at = << >>
    /\ max_size \in 0..MaxCapacity
    /\ cacheLog = NoCacheLog

\* get(key): a hit counts the access, a miss returns None
CacheGet(k) ==
    /\ IF k \in DictKeys(cache)
       THEN /\ DictGet(access_count, k) < MaxAccess
            /\ access_count' = DictSet(access_count, k, DictGet(access_count, k) + 1)
       ELSE UNCHANGED access_count
    /\ UNCHANGED << cache, created_at, max_size, cacheLog,
                    storeVars, now, everDeleted, last, callVars, funVars >>

\* set(key, embedding), with _evict_lru
CacheSet(k, v) ==
    /\ Len(cacheLog.sets) < MaxSets
    /\ \E d \in ClockSteps :
         /\ now + d <= CacheMaxClock
         /\ now' = now + d
         /\ LET ev == Evicts(cache, max_size)
                lru == LruKey(access_count)
                c1 == IF ev THEN DictRemove(cache, lru) ELSE cache
                a1 == IF ev THEN DictRemove(access_count, lru) ELSE access_count
                t1 == IF ev THEN DictRemove(created_at, lru) ELSE created_at
            IN /\ cache' = DictSet(c1, k, v)
               /\ access_count' = DictSet(a1, k, 0)
               /\ created_at' = DictSet(t1, k, now + d)
               /\ cacheLog' =
                    [ cacheLog EXCEPT
                        !.sets = Append(@, k),
                        !.evictions = IF ev THEN @ + 1 ELSE @,
                        !.evicted = IF ev THEN [ key |-> lru, counts |-> access_count ]
                                    ELSE @ ]
    /\ UNCHANGED << max_size, storeVars, everDeleted, last, callVars, funVars >>

\* clear()
CacheClear ==
    /\ cache # << >>
    /\ cache' = << >>
    /\ access_count' = << >>
    /\ created_at' = << >>
    /\ cacheLog' = [ cacheLog EXCEPT !.cleared = TRUE ]
    /\ UNCHANGED << max_size, storeVars, now, everDeleted, last, callVars, funVars >>

CacheNext ==
    \/ \E k \in CacheKeys : CacheGet(k)
    \/ \E k \in CacheKeys, v \in Embeddings : CacheSet(k, v)
    \/ CacheClear

CacheSpec == CacheInit /\ [][CacheNext]_vars

-----------------------------------------------------------------------------
(* Vocabulary of the properties *)

Done(c) == pc[c] = "done"
Returned(c) == outcome[c].kind = "returned"
Succeeded(c) == Returned(c) /\ outcome[c].result.success
Failed(c) == Returned(c) /\ ~outcome[c].result.success

\* the answer the generation backend gave to the first call of request c
FirstAnswer(c) == BackendAnswer(req[c].script, 1)

\* every user message of seq is followed at once by the assistant message of
\* the same exchange
UserHasReply(seq) ==
    \A i \in 1..Len(seq) :
        seq[i].role = "user" =>
            /\ i < Len(seq)
            /\ seq[i + 1].role = "assistant"
            /\ seq[i + 1].call = seq[i].call

\* every assistant message of seq follows at once the user message of the same
\* exchange
ReplyHasUser(seq) ==
    \A i \in 1..Len(seq) :
        seq[i].role = "assistant" =>
            /\ i > 1
            /\ seq[i - 1].role = "user"
            /\ seq[i - 1].call = seq[i].call

\* the limits the repository's readers pass to get_messages
ReaderLimits == { NoLimit, RouteReadLimit, HistoryLimit }

StoredBy(c) ==
    { << t, i >> \in UNION { { t } \X (1..Len(messages[t])) : t \in DOMAIN messages } :
        messages[t][i].call = c }

-----------------------------------------------------------------------------
(* C1..C10: generate_chat_response *)

\* C1: whatever the interleaving of respond calls on a thread, in every state a
\* reader can see (the stored sequence, what get_messages returns for the limits
\* the readers use, the message_count get_user_threads returns) each user
\* message is directly followed by the assistant reply of the same exchange and
\* each reply directly follows its user message
C1_NoHalfExchange ==
    /\ \A t \in DOMAIN messages :
         /\ UserHasReply(messages[t])
         /\ ReplyHasUser(messages[t])
    /\ \A t \in ThreadIds, limit \in ReaderLimits :
         UserHasReply(GetMessages(messages, t, limit))
    /\ \A u \in Users :
         \A i \in 1..Len(GetUserThreads(threads, user_threads, u, ListLimit, 0)) :
            LET th == GetUserThreads(threads, user_threads, u, ListLimit, 0)[i]
            IN th.message_count = Len(ListAt(messages, th.thread_id))
                /\ th.message_count % 2 = 0

\* call 2 started after call 1 and stored its exchange first: the two calls
\* overlapped on the thread, which holds both exchanges
C1_Witness ==
    \E t \in DOMAIN messages :
        /\ Len(messages[t]) = 4
        /\ messages[t][1].call = 2
        /\ messages[t][3].call = 1
        /\ Succeeded(1) /\ Succeeded(2)

\* C2 (as claimed): a thread that was never deleted holds two messages per
\* successful respond call and its message timestamps are strictly increasing
C2_StrictTimestamps ==
    \A t \in DOMAIN messages :
        t \notin everDeleted =>
            /\ Len(messages[t]) =
                 2 * Cardinality({ c \in Calls : Succeeded(c) /\ req[c].session = t })
            /\ \A i, j \in 1..Len(messages[t]) :
                 i < j => messages[t][i].timestamp < messages[t][j].timestamp

\* C3 (as claimed): a single call through the route whose backend fails twice
\* with a rate limit and then answers ends with success and one stored exchange
C3_RetryThenSuccess ==
    \A c \in Calls :
        ( /\ Done(c)
          /\ c \notin cancelled
          /\ req[c].route
          /\ req[c].session \notin everDeleted
          /\ \A b \in Calls \ { c } : pc[b] = "idle"
          /\ req[c].script = <<"RateLimitError", "RateLimitError", "ok">> )
        => Succeeded(c) /\ appended[c] = 2

\* C4: when the backend answers the first call with a malformed-request error,
\* it is never called again for that request, and the call ends with a failure
\* result and nothing stored
C4_NoRetryOnFatal ==
    \A c \in Calls :
        FirstAnswer(c) = "BadRequestError" =>
            /\ genCalls[c] <= 1
            /\ (genCalls[c] = 1 =>
                  /\ Done(c)
                  /\ Failed(c)
                  /\ appended[c] = 0
                  /\ StoredBy(c) = {})

C4_Witness ==
    \E c \in Calls :
        /\ FirstAnswer(c) = "BadRequestError"
        /\ genCalls[c] = 1
        /\ Failed(c)

\* C5: a call that was not cancelled never ends with an exception: it returns a
\* result, with success = false when generation or persistence failed
C5_NoEscape ==
    \A c \in Calls :
        /\ outcome[c].kind # "raised"
        /\ (Done(c) /\ c \notin cancelled) =>
              /\ Returned(c)
              /\ (FirstAnswer(c) # "ok" => ~outcome[c].result.success)
              /\ (appended[c] = 0 => ~outcome[c].result.success)

\* one call ended on a generation failure and another on a persistence failure
C5_Witness ==
    \E c1, c2 \in Calls :
        /\ Failed(c1) /\ FirstAnswer(c1) # "ok"
        /\ Failed(c2) /\ FirstAnswer(c2) = "ok"
        /\ outcome[c2].result.error = StrOf(ThreadNotFound(req[c2].session))

\* C6: a call reports success only when it stored both messages of its
\* exchange, and a call whose backend answered but whose thread was gone when it
\* stored reports failure
C6_SuccessOnlyIfStored ==
    \A c \in Calls :
        /\ Succeeded(c) => appended[c] = 2
        /\ (Done(c) /\ genCalls[c] = 1 /\ FirstAnswer(c) = "ok" /\ appended[c] # 2)
              => Failed(c) /\ appended[c] = 0 /\ StoredBy(c) = {}

\* generation succeeded, the thread had been deleted meanwhile, the call failed
C6_Witness ==
    \E c \in Calls :
        /\ genCalls[c] = 1 /\ FirstAnswer(c) = "ok"
        /\ req[c].route
        /\ req[c].session \in everDeleted
        /\ Failed(c)
        /\ appended[c] = 0

\* C7: a call whose retrieval failed (embedding backend or vector index) still
\* calls the generation backend, and when that answers and the thread is there
\* the call succeeds with context_used = false and its exchange stored
C7_RetrievalFailureAbsorbed ==
    \A c \in Calls :
        (Done(c) /\ c \notin cancelled /\ ragError[c] # "none") =>
            /\ genCalls[c] = 1
            /\ Returned(c)
            /\ FirstAnswer(c) = "ok" =>
                 \/ /\ outcome[c].result.success
                    /\ ~outcome[c].result.context_used
                    /\ appended[c] = 2
                 \/ /\ ~outcome[c].result.success
                    /\ outcome[c].result.error = StrOf(ThreadNotFound(req[c].session))

\* the index was unreachable for one call and the embedding backend for the
\* other, and both calls succeeded
C7_Witness ==
    \E c1, c2 \in Calls :
        /\ ragError[c1] = "index" /\ Succeeded(c1) /\ appended[c1] = 2
        /\ ragError[c2] = "embedding" /\ Succeeded(c2) /\ appended[c2] = 2

\* C8: a cancelled call has stored no message
C8_CancelledStoresNothing ==
    \A c \in cancelled : appended[c] = 0 /\ StoredBy(c) = {}

\* one call was cancelled during its embedding call, the other during its
\* generation call
C8_Witness ==
    \E c1, c2 \in cancelled :
        /\ Done(c1) /\ called[c1] = {}
        /\ Done(c2) /\ "index" \in called[c2] /\ genCalls[c2] = 0

\* C9 (as claimed): after a failed generation call neither the result nor the
\* reply of the route holds the backend's error text
C9_NoRawErrorText ==
    \A c \in Calls :
        (Failed(c) /\ genCalls[c] = 1 /\ FirstAnswer(c) # "ok") =>
            /\ ~Contains(outcome[c].result.error, StrOf(BackendError(FirstAnswer(c))))
            /\ ~Contains(outcome[c].reply.body, StrOf(BackendError(FirstAnswer(c))))

\* C10 (as claimed): a request with an empty message calls no backend and
\* stores nothing
C10_EmptyRejected ==
    \A c \in Calls :
        (pc[c] # "idle" /\ req[c].message = EmptyContent) =>
            /\ called[c] = {}
            /\ genCalls[c] = 0
            /\ appended[c] = 0

-----------------------------------------------------------------------------
(* C11..C16: the thread store *)

\* the store is as it was before the last call
StoreUnchanged == Store = last.pre

\* how often id occurs in seq
Occurrences(seq, id) == Cardinality({ i \in 1..Len(seq) : seq[i] = id })

\* C11 (as claimed): create_thread with an id that a thread already has raises
\* and leaves threads, messages and the per-user lists as they were
C11_DuplicateRejected ==
    (last.op = "create_thread" /\ last.thread \in DOMAIN last.pre.threads)
        => last.raised /\ StoreUnchanged

\* C12: add_message on an id that no thread has (never created, or deleted)
\* raises the thread-not-found error and leaves the store as it was: the id is
\* neither in threads nor in the message map afterwards, and no per-user list
\* has gained it
C12_AddToMissingThread ==
    (last.op = "add_message" /\ last.thread \notin DOMAIN last.pre.threads)
        => /\ last.raised
           /\ last.result = ThreadNotFound(last.thread)
           /\ StoreUnchanged
           /\ last.thread \notin DOMAIN threads
           /\ last.thread \notin DOMAIN messages
           /\ \A u \in StoreUsers :
                Occurrences(ListAt(user_threads, u), last.thread)
                    = Occurrences(ListAt(last.pre.user_threads, u), last.thread)

\* add_message has failed on a thread that had been created, had held messages
\* and was deleted, while another thread exists
C12_Witness ==
    /\ last.op = "add_message"
    /\ last.raised
    /\ last.thread \in everDeleted
    /\ DOMAIN threads # {}

\* C13: after delete_thread(id) get_thread(id) finds nothing and the id has no
\* messages; the call does not raise; a further delete_thread(id) would change
\* nothing, and a call on an id that no thread had has changed nothing
C13_DeleteIdempotent ==
    last.op = "delete_thread" =>
        /\ ~last.raised
        /\ GetThread(threads, last.thread) = NoneValue
        /\ last.thread \notin DOMAIN messages
        /\ DeleteThreadThreads(threads, last.thread) = threads
        /\ DeleteThreadMessages(threads, messages, last.thread) = messages
        /\ DeleteThreadUserThreads(threads, user_threads, last.thread) = user_threads
        /\ (last.thread \notin DOMAIN last.pre.threads => StoreUnchanged)

\* the second delete_thread on an id whose thread, with its messages, an
\* earlier call had removed
C13_Witness ==
    /\ last.op = "delete_thread"
    /\ last.thread \in everDeleted
    /\ last.thread \notin DOMAIN last.pre.threads
    /\ StoreUnchanged

\* C14 (as claimed): when the first message of a thread is a user message, the
\* title is the first 50 characters of its content
C14_TitleFirst50 ==
    ( /\ last.op = "add_message"
      /\ ~last.raised
      /\ last.input.role = "user"
      /\ ListAt(last.pre.messages, last.thread) = << >> )
        => threads[last.thread].title
               = SubSeq(last.input.content, 1, Min(TitleLen, Len(last.input.content)))

\* C15 (as claimed): add_feedback on an existing thread with a message id none
\* of its messages carries does not raise and changes no message
C15_UnknownIdNoEffect ==
    ( /\ last.op = "add_feedback"
      /\ last.thread \in DOMAIN last.pre.threads
      /\ FirstWithId(ListAt(last.pre.messages, last.thread), last.input, 1) = 0 )
        => ~last.raised /\ messages = last.pre.messages

\* C16 (as claimed): every entry search_user_chats(u, ...) returns is a message
\* of a thread whose user_id is u
C16_SearchOwnThreadsOnly ==
    last.op = "search_user_chats" =>
        \A i \in 1..Len(last.result) :
            /\ last.result[i].thread_id \in DOMAIN threads
            /\ threads[last.result[i].thread_id].user_id = last.user

-----------------------------------------------------------------------------
(* C17, C19, C20: retrieval, prompt, get_messages *)

\* the score of the indexed document a context part was made from
ScoreOf(source) == (CHOOSE d \in IndexedDocs : d.source = source).score

\* C17 (as claimed): the context holds no result with a score <= 0.5, at most
\* 5 results, and these in non-increasing score order, whatever the order of
\* the matches the index answered with
C17_RetrievalOrdered ==
    (arg.fn = "_get_rag_context" /\ res.done) =>
        /\ \A i \in 1..Len(res.value) : ScoreOf(res.value[i]) > ScoreThreshold
        /\ Len(res.value) <= TopK
        /\ \A i, j \in 1..Len(res.value) :
             i < j => ScoreOf(res.value[i]) >= ScoreOf(res.value[j])

\* C19 (as claimed): the prompt is the system prompt, then the context turn
\* when the context is not empty, then the 10 most recent stored messages
\* oldest first, then the new user message
C19_PromptOrder ==
    (arg.fn = "prompt" /\ res.done) =>
        res.value =
            << Turn("system", SystemPrompt) >>
                \o (IF arg.context # << >> THEN << ContextTurn(arg.context) >> ELSE << >>)
                \o HistoryTurns(LastN(arg.stored, HistoryLimit))
                \o << Turn("user", arg.message) >>

\* the messages of seq with a time stamp strictly inside the window
InWindow(seq, before, after) ==
    SelectSeq(seq, LAMBDA m : /\ (before # Unset => m.timestamp < before)
                              /\ (after # Unset => m.timestamp > after))

\* C20 (as claimed): for every limit >= 0, get_messages returns the last limit
\* messages of those inside the window, in append order, and the empty
\* sequence for a thread without stored messages
C20_LastLimitOfWindow ==
    (arg.fn = "get_messages" /\ res.done /\ arg.limit # Unset) =>
        res.value =
            IF arg.present
            THEN LastN(InWindow(arg.stored, arg.before, arg.after), arg.limit)
            ELSE << >>

-----------------------------------------------------------------------------
(* C18: EmbeddingCache *)

\* every set call so far was for a key not set before, and clear was not called
DistinctInserts ==
    /\ ~cacheLog.cleared
    /\ \A i, j \in 1..Len(cacheLog.sets) : i # j => cacheLog.sets[i] # cacheLog.sets[j]

\* the place of key k in the order of the set calls
InsertedAt(k) == CHOOSE i \in 1..Len(cacheLog.sets) : cacheLog.sets[i] = k

-----------------------------------------------------------------------------
(* C21..C28: the thread store, read and cleaned up *)

\* the messages of seq that contain q, in append order
RECURSIVE MatchesIn(_, _, _, _)
MatchesIn(ths, tid, seq, q) ==
    IF seq = << >> THEN << >>
    ELSE (IF Contains(Lower(Head(seq).content), Lower(q))
          THEN << SearchResult(ths, tid, Head(seq)) >> ELSE << >>)
             \o MatchesIn(ths, tid, Tail(seq), q)

\* every match of the threads ids, in the order of ids
RECURSIVE MatchesOf(_, _, _, _)
MatchesOf(ths, msgs, ids, q) ==
    IF ids = << >> THEN << >>
    ELSE MatchesIn(ths, Head(ids), ListAt(msgs, Head(ids)), q)
             \o MatchesOf(ths, msgs, Tail(ids), q)

\* C21 (as claimed): search_user_chats returns the first limit matches of the
\* user's threads, taken in the order of the user's list and, within a thread,
\* in append order, for every limit >= 0
C21_FirstLimitMatches ==
    last.op = "search_user_chats" =>
        LET all == MatchesOf(threads, messages, ListAt(user_threads, last.user),
                             last.input.query)
        IN last.result = SubSeq(all, 1, Min(last.input.limit, Len(all)))

\* the existing threads that user owns
OwnedBy(ths, user) == { tid \in DOMAIN ths : ths[tid].user_id = user }

\* C22 (as claimed): get_user_threads returns existing threads owned by the
\* user, each at most once, by updated_at descending, and as many of them as
\* the page [offset, offset + limit) of the user's threads holds
C22_OwnedSortedPage ==
    last.op = "get_user_threads" =>
        LET r == last.result
            n == Cardinality(OwnedBy(threads, last.user))
        IN /\ \A i \in 1..Len(r) :
                /\ r[i].thread_id \in DOMAIN threads
                /\ r[i] = threads[r[i].thread_id]
                /\ r[i].user_id = last.user
           /\ \A i, j \in 1..Len(r) : i # j => r[i].thread_id # r[j].thread_id
           /\ \A i, j \in 1..Len(r) : i < j => r[i].updated_at >= r[j].updated_at
           /\ Len(r) = Min(last.input.limit, Max(0, n - last.input.offset))

\* seq without the ids of gone
RECURSIVE Without(_, _)
Without(seq, gone) ==
    IF seq = << >> THEN << >>
    ELSE (IF Head(seq) \in gone THEN << >> ELSE << Head(seq) >>)
             \o Without(Tail(seq), gone)

\* C23 (as claimed): cleanup_old_threads deletes the threads whose updated_at
\* precedes the cutoff, with their messages and their entries in the per-user
\* lists, leaves every other thread, message sequence and list entry as it was,
\* and returns the number of threads deleted
C23_CleanupExact ==
    last.op = "cleanup_old_threads" =>
        LET pre == last.pre
            old == { tid \in DOMAIN pre.threads :
                       pre.threads[tid].updated_at < last.input.cutoff_date }
        IN /\ DOMAIN threads = DOMAIN pre.threads \ old
           /\ \A tid \in DOMAIN threads : threads[tid] = pre.threads[tid]
           /\ \A tid \in old : tid \notin DOMAIN messages
           /\ \A tid \in DOMAIN pre.messages \ old :
                ListAt(messages, tid) = pre.messages[tid]
           /\ \A u \in StoreUsers :
                ListAt(user_threads, u) = Without(ListAt(pre.user_threads, u), old)
           /\ last.result = Cardinality(old)

\* C24 (as claimed): the message_count of every thread is the length of its
\* message sequence
C24_CountIsLength ==
    \A tid \in DOMAIN threads :
        threads[tid].message_count = Len(ListAt(messages, tid))

\* C26 (as claimed): no call lowers the updated_at of a thread, an append sets
\* it no earlier than the message's timestamp, and created_at is no later than
\* the timestamp of any message of the thread
C26_TimesOrdered ==
    /\ \A tid \in DOMAIN threads \cap DOMAIN last.pre.threads :
            threads[tid].updated_at >= last.pre.threads[tid].updated_at
    /\ (last.op = "add_message" /\ ~last.raised) =>
            threads[last.thread].updated_at >= last.input.timestamp
    /\ \A tid \in DOMAIN threads :
            \A i \in 1..Len(ListAt(messages, tid)) :
                threads[tid].created_at <= messages[tid][i].timestamp

\* tid holds a user message
HasUserMessage(msgs, tid) ==
    \E i \in 1..Len(ListAt(msgs, tid)) : msgs[tid][i].role = "user"

\* C27 (as claimed): a thread that holds a user message has a title, and
\* add_message and add_feedback leave a title that is set as it was
C27_TitleSetOnce ==
    /\ \A tid \in DOMAIN threads :
            HasUserMessage(messages, tid) => threads[tid].title # NoneValue
    /\ last.op \in { "add_message", "add_feedback" } =>
            \A tid \in DOMAIN threads \cap DOMAIN last.pre.threads :
                last.pre.threads[tid].title # NoneValue =>
                    threads[tid].title = last.pre.threads[tid].title

\* how often tid occurs in all the per-user lists
RECURSIVE OccurrencesInLists(_, _, _)
OccurrencesInLists(uts, users, tid) ==
    IF users = {} THEN 0
    ELSE LET u == CHOOSE x \in users : TRUE
         IN Occurrences(uts[u], tid) + OccurrencesInLists(uts, users \ {u}, tid)

\* C28 (as claimed): the id of every thread is once in the per-user lists, in
\* the list of its owner, and no list holds the id of a thread of another user
C28_ListsMatchOwners ==
    /\ \A tid \in DOMAIN threads :
            /\ OccurrencesInLists(user_threads, DOMAIN user_threads, tid) = 1
            /\ Occurrences(ListAt(user_threads, threads[tid].user_id), tid) = 1
    /\ \A u \in DOMAIN user_threads :
            \A i \in 1..Len(user_threads[u]) :
                user_threads[u][i] \in DOMAIN threads =>
                    threads[user_threads[u][i]].user_id = u

-----------------------------------------------------------------------------
(* C25: the message ids of the messages that respond stores *)

\* C25 (as claimed): every stored message has a message id that no other
\* message of its thread has, and add_feedback with that id sets the feedback of
\* that message and leaves the others as they were
C25_StoredIdsUnique ==
    \A tid \in DOMAIN messages :
        \A i \in 1..Len(messages[tid]) :
            LET mid == messages[tid][i].message_id
                fb == [ rating |-> 5, user_id |-> "u1" ]
            IN /\ mid # NoneValue
               /\ \A j \in 1..Len(messages[tid]) :
                    j # i => messages[tid][j].message_id # mid
               /\ LET after == AddFeedbackMessages(messages, tid, mid, fb)
                  IN /\ after[tid][i].feedback = fb
                     /\ \A j \in 1..Len(messages[tid]) :
                            j # i => after[tid][j] = messages[tid][j]

-----------------------------------------------------------------------------
(* C29, C30: the size and the keys of the embedding cache *)

\* C29 (as claimed): for every capacity max_size >= 0 the cache never holds more
\* than max_size entries, and cache, access_count and created_at have the same
\* keys
C29_SizeWithinCapacity ==
    /\ Len(cache) <= max_size
    /\ DictKeys(access_count) = DictKeys(cache)
    /\ DictKeys(created_at) = DictKeys(cache)

\* the step is a set call on a key that the cache holds
SetOfCachedKey ==
    /\ Len(cacheLog'.sets) = Len(cacheLog.sets) + 1
    /\ cacheLog'.sets[Len(cacheLog'.sets)] \in DictKeys(cache)

\* C30 (as claimed): a set on a key that the cache holds removes no key, also
\* when the cache is full: the keys are the same before and after
C30_ResetKeepsKeys ==
    [][ SetOfCachedKey => DictKeys(cache') = DictKeys(cache) ]_vars

====
